---------------------------- MODULE Spec2Model ----------------------------
(***************************************************************************)
(* SF City Hall lighting calendar scraper (src/scraper.py).                *)
(*                                                                         *)
(* Text is modelled at character level: a string is a sequence of          *)
(* one-character strings.  "EN" and "EM" stand for the single characters   *)
(* U+2013 and U+2014, "\n" for a line break.  A date is a record           *)
(* [year, month, day].  A document is the BeautifulSoup tree, written as   *)
(* the sequence of its nodes in document order, each with the index of     *)
(* its parent (0 is the BeautifulSoup object itself).                      *)
(***************************************************************************)
EXTENDS Integers, Sequences, FiniteSets, TLC

VARIABLES
    pc,            \* position of main(): idle, fetched, loop, parsed, saved, raised
    runs,          \* number of runs of main() started so far
    source,        \* what the page shows in this run: its shape and its entries
    html_content,  \* the document fetch_page returned to this run
    event_tags,    \* get_text() of every <b> tag of the located block
    tag_idx,       \* number of event tags the loop has processed
    events,        \* the list parse_lighting_schedule is building / returned
    error,         \* the exception that ended the run, "none" otherwise
    csv_exists,    \* os.path.exists(CSV_FILE)
    csv_rows,      \* the data rows of CSV_FILE, in file order
    ics_exists,    \* whether OUTPUT_FILE has been written
    ics,           \* the entries of OUTPUT_FILE as last written
    uid_log,       \* every (date, uid) pair any run has put in a feed
    date_expr,     \* the date expression a direct call of parse_dates is given
    date_text,     \* its text, the argument of the call
    resolved       \* outcome of the call ("pending" before it)

vars == << pc, runs, source, html_content, event_tags, tag_idx, events, error,
           csv_exists, csv_rows, ics_exists, ics, uid_log,
           date_expr, date_text, resolved >>

mainVars == << pc, runs, source, html_content, event_tags, tag_idx, events, error,
               csv_exists, csv_rows, ics_exists, ics, uid_log >>

-----------------------------------------------------------------------------
(* Characters                                                              *)

UpperSeq == <<"A","B","C","D","E","F","G","H","I","J","K","L","M","N","O","P","Q","R","S","T","U","V","W","X","Y","Z">>
LowerSeq == <<"a","b","c","d","e","f","g","h","i","j","k","l","m","n","o","p","q","r","s","t","u","v","w","x","y","z">>
DigitSeq == <<"0","1","2","3","4","5","6","7","8","9">>

Upper == { UpperSeq[i] : i \in 1..26 }
Lower == { LowerSeq[i] : i \in 1..26 }
Digit == { DigitSeq[i] : i \in 1..10 }
\* what \s and str.strip() treat as whitespace (of the characters used here)
Space == { " ", "\n" }
\* the character class [EN EM] of the delimiter pattern
Dash  == { "EN", "EM" }

\* re.IGNORECASE compares characters after case folding
Fold(c) == IF c \in Upper THEN LowerSeq[CHOOSE i \in 1..26 : UpperSeq[i] = c] ELSE c

DigitVal(c) == (CHOOSE i \in 1..10 : DigitSeq[i] = c) - 1

RECURSIVE Flatten(_)
\* "".join(parts)
Flatten(ss) == IF ss = <<>> THEN <<>> ELSE Head(ss) \o Flatten(Tail(ss))

RECURSIVE SpanEnd(_, _, _)
\* last index of the longest run of characters of class cls that starts at i
\* (i-1 when s[i] is not in cls): what a greedy cls* consumes
SpanEnd(s, i, cls) ==
    IF i <= Len(s) /\ s[i] \in cls THEN SpanEnd(s, i + 1, cls) ELSE i - 1

\* whether the literal lit occurs in s at position i
LitAt(s, i, lit) ==
    /\ i >= 1
    /\ i + Len(lit) - 1 <= Len(s)
    /\ \A k \in 1..Len(lit) : s[i + k - 1] = lit[k]

\* the same, ignoring case
LitAtCI(s, i, lit) ==
    /\ i >= 1
    /\ i + Len(lit) - 1 <= Len(s)
    /\ \A k \in 1..Len(lit) : Fold(s[i + k - 1]) = Fold(lit[k])

\* Python's  lit in s
Contains(s, lit) == \E i \in 1..Len(s) : LitAt(s, i, lit)

\* re.compile(lit, re.IGNORECASE).search(s)
ContainsCI(s, lit) == \E i \in 1..Len(s) : LitAtCI(s, i, lit)

RECURSIVE LStrip(_)
LStrip(s) == IF s # <<>> /\ Head(s) \in Space THEN LStrip(Tail(s)) ELSE s

RECURSIVE RStrip(_)
RStrip(s) ==
    IF s # <<>> /\ s[Len(s)] \in Space THEN RStrip(SubSeq(s, 1, Len(s) - 1)) ELSE s

\* str.strip()
Strip(s) == LStrip(RStrip(s))

RECURSIVE ParseInt(_)
\* int(digits)
ParseInt(ds) ==
    IF ds = <<>> THEN 0
    ELSE 10 * ParseInt(SubSeq(ds, 1, Len(ds) - 1)) + DigitVal(ds[Len(ds)])

RECURSIVE IntToStr(_)
\* str(n) of a non-negative int: decimal, no leading zeros
IntToStr(n) ==
    IF n < 10 THEN << DigitSeq[n + 1] >>
    ELSE IntToStr(n \div 10) \o << DigitSeq[(n % 10) + 1] >>

-----------------------------------------------------------------------------
(* Calendar dates (datetime.date)                                          *)

MonthNames ==
    << <<"J","a","n","u","a","r","y">>,
       <<"F","e","b","r","u","a","r","y">>,
       <<"M","a","r","c","h">>,
       <<"A","p","r","i","l">>,
       <<"M","a","y">>,
       <<"J","u","n","e">>,
       <<"J","u","l","y">>,
       <<"A","u","g","u","s","t">>,
       <<"S","e","p","t","e","m","b","e","r">>,
       <<"O","c","t","o","b","e","r">>,
       <<"N","o","v","e","m","b","e","r">>,
       <<"D","e","c","e","m","b","e","r">> >>

\* datetime.MAXYEAR: date.max is December 31 of this year
MAXYEAR == 9999

IsLeap(y) == (y % 4 = 0) /\ ((y % 100 # 0) \/ (y % 400 = 0))

DaysInMonth(y, m) ==
    IF m = 2 THEN (IF IsLeap(y) THEN 29 ELSE 28)
    ELSE IF m \in {4, 6, 9, 11} THEN 30 ELSE 31

MkDate(y, m, d) == [year |-> y, month |-> m, day |-> d]

\* date(y, m, d) does not raise ValueError
ValidDate(y, m, d) ==
    /\ y >= 1 /\ y <= MAXYEAR
    /\ m >= 1 /\ m <= 12
    /\ d >= 1 /\ d <= DaysInMonth(y, m)

\* a < b on dates
DateLT(a, b) ==
    \/ a.year < b.year
    \/ a.year = b.year /\ a.month < b.month
    \/ a.year = b.year /\ a.month = b.month /\ a.day < b.day

DateLE(a, b) == a = b \/ DateLT(a, b)

\* d + timedelta(days=1), for d before date.max
NextDay(d) ==
    IF d.day < DaysInMonth(d.year, d.month) THEN MkDate(d.year, d.month, d.day + 1)
    ELSE IF d.month < 12 THEN MkDate(d.year, d.month + 1, 1)
    ELSE MkDate(d.year + 1, 1, 1)

\* d + timedelta(days=1) raises OverflowError
NextDayOverflows(d) == d = MkDate(MAXYEAR, 12, 31)

\* the decimal digit character of n, 0 <= n <= 9
DigitChar(n) == DigitSeq[n + 1]

\* date.isoformat(): YYYY-MM-DD
IsoFormat(d) ==
    << DigitChar((d.year \div 1000) % 10), DigitChar((d.year \div 100) % 10),
       DigitChar((d.year \div 10) % 10), DigitChar(d.year % 10), "-",
       DigitChar(d.month \div 10), DigitChar(d.month % 10), "-",
       DigitChar(d.day \div 10), DigitChar(d.day % 10) >>

-----------------------------------------------------------------------------
(* datetime.strptime(f"{month} {day}, {year}", "%B %d, %Y").date()         *)

\* %B: the full month name, matched ignoring case; 0 when it is no month
MonthNumber(name) ==
    IF \E m \in 1..12 : Len(name) = Len(MonthNames[m]) /\ LitAtCI(name, 1, MonthNames[m])
    THEN CHOOSE m \in 1..12 : Len(name) = Len(MonthNames[m]) /\ LitAtCI(name, 1, MonthNames[m])
    ELSE 0

\* %d followed by the literal comma: one digit 1-9, or two digits 01-31
DayDirectiveOk(ds) ==
    \/ Len(ds) = 1 /\ ParseInt(ds) >= 1
    \/ Len(ds) = 2 /\ ParseInt(ds) >= 1 /\ ParseInt(ds) <= 31

\* the outcome of the strptime call: ok = FALSE stands for ValueError
Strptime(month, day, year) ==
    LET m == MonthNumber(month)
        d == ParseInt(day)
        y == ParseInt(year)
    IN  IF m # 0 /\ DayDirectiveOk(day) /\ Len(year) = 4 /\ ValidDate(y, m, d)
        THEN [ok |-> TRUE, date |-> MkDate(y, m, d)]
        ELSE [ok |-> FALSE, date |-> MkDate(0, 0, 0)]

-----------------------------------------------------------------------------
(* The pieces of the three date patterns of parse_dates.  Each takes the   *)
(* position p where it must match (0: an earlier piece failed) and gives   *)
(* the position after its match, or 0.  Every quantified class is followed *)
(* by a character outside it, so the greedy match is the only match.       *)

\* [A-Z][a-z]+day,
MWeekday(s, p) ==
    IF p = 0 \/ p > Len(s) THEN 0
    ELSE LET j == SpanEnd(s, p + 1, Lower)
         IN  IF /\ s[p] \in Upper
                /\ j - p >= 4
                /\ LitAt(s, j - 2, <<"d", "a", "y">>)
                /\ LitAt(s, j + 1, <<",">>)
             THEN j + 2 ELSE 0

\* \s+
MSpaces(s, p) ==
    IF p = 0 THEN 0
    ELSE LET j == SpanEnd(s, p, Space) IN IF j >= p THEN j + 1 ELSE 0

\* [A-Z][a-z]+
MWord(s, p) ==
    IF p = 0 \/ p > Len(s) THEN 0
    ELSE LET j == SpanEnd(s, p + 1, Lower)
         IN  IF s[p] \in Upper /\ j >= p + 1 THEN j + 1 ELSE 0

\* \d+
MDigits(s, p) ==
    IF p = 0 THEN 0
    ELSE LET j == SpanEnd(s, p, Digit) IN IF j >= p THEN j + 1 ELSE 0

\* \s*-\s*
MHyphen(s, p) ==
    IF p = 0 THEN 0
    ELSE LET h == SpanEnd(s, p, Space) + 1
         IN  IF LitAt(s, h, <<"-">>) THEN SpanEnd(s, h + 1, Space) + 1 ELSE 0

\* ,
MComma(s, p) == IF p # 0 /\ LitAt(s, p, <<",">>) THEN p + 1 ELSE 0

\* \d{4}
MYear(s, p) ==
    IF p # 0 /\ p + 3 <= Len(s) /\ \A k \in 0..3 : s[p + k] \in Digit THEN p + 4 ELSE 0

NoMatch == [ok |-> FALSE]

\* re.match of the full-date range pattern:
\* Weekday, Month D - Weekday, Month D, YYYY
RangeMatch(s) ==
    LET a1  == MSpaces(s, MWeekday(s, 1))
        a2  == MWord(s, a1)
        a3  == MSpaces(s, a2)
        a4  == MDigits(s, a3)
        a5  == MSpaces(s, MWeekday(s, MHyphen(s, a4)))
        a6  == MWord(s, a5)
        a7  == MSpaces(s, a6)
        a8  == MDigits(s, a7)
        a9  == MSpaces(s, MComma(s, a8))
        a10 == MYear(s, a9)
    IN  IF a10 = 0 THEN NoMatch
        ELSE [ok |-> TRUE,
              start_month |-> SubSeq(s, a1, a2 - 1),
              start_day   |-> ParseInt(SubSeq(s, a3, a4 - 1)),
              end_month   |-> SubSeq(s, a5, a6 - 1),
              end_day     |-> ParseInt(SubSeq(s, a7, a8 - 1)),
              year        |-> SubSeq(s, a9, a10 - 1)]

\* re.match of the short range pattern: Weekday, Month D-D, YYYY
ShortRangeMatch(s) ==
    LET a1 == MSpaces(s, MWeekday(s, 1))
        a2 == MWord(s, a1)
        a3 == MSpaces(s, a2)
        a4 == MDigits(s, a3)
        a5 == MHyphen(s, a4)
        a6 == MDigits(s, a5)
        a7 == MSpaces(s, MComma(s, a6))
        a8 == MYear(s, a7)
    IN  IF a8 = 0 THEN NoMatch
        ELSE [ok |-> TRUE,
              month_name |-> SubSeq(s, a1, a2 - 1),
              start_day  |-> ParseInt(SubSeq(s, a3, a4 - 1)),
              end_day    |-> ParseInt(SubSeq(s, a5, a6 - 1)),
              year       |-> SubSeq(s, a7, a8 - 1)]

\* re.match of the single date pattern: Weekday, Month D, YYYY
SingleMatch(s) ==
    LET a1 == MSpaces(s, MWeekday(s, 1))
        a2 == MWord(s, a1)
        a3 == MSpaces(s, a2)
        a4 == MDigits(s, a3)
        a5 == MSpaces(s, MComma(s, a4))
        a6 == MYear(s, a5)
    IN  IF a6 = 0 THEN NoMatch
        ELSE [ok |-> TRUE,
              month_name |-> SubSeq(s, a1, a2 - 1),
              day        |-> SubSeq(s, a3, a4 - 1),
              year       |-> SubSeq(s, a5, a6 - 1)]

-----------------------------------------------------------------------------
(* parse_dates.  Its outcome is [exc, dates]: exc is "none" when the call  *)
(* returns dates, else the name of the exception that leaves it.           *)

Returns(ds) == [exc |-> "none", dates |-> ds]
Raises(e)   == [exc |-> e, dates |-> <<>>]

RECURSIVE RangeLoop(_, _, _)
\* while current <= end_date: dates.append(current); current += timedelta(days=1)
RangeLoop(current, end_date, dates) ==
    IF ~ DateLE(current, end_date) THEN Returns(dates)
    ELSE IF NextDayOverflows(current) THEN Raises("OverflowError")
    ELSE RangeLoop(NextDay(current), end_date, Append(dates, current))

\* the try block of the full-date range: both endpoints are parsed before
\* any date is produced, and ValueError from either gives []
FullRange(m) ==
    LET start_date == Strptime(m.start_month, IntToStr(m.start_day), m.year)
        end_date   == Strptime(m.end_month, IntToStr(m.end_day), m.year)
    IN  IF start_date.ok /\ end_date.ok
        THEN RangeLoop(start_date.date, end_date.date, <<>>)
        ELSE Returns(<<>>)

RECURSIVE ShortLoopAbort(_, _, _, _, _)
\* variant: the try around the whole loop, so the first invalid day ends it
\* with nothing
ShortLoopAbort(month_name, year, day, end_day, dates) ==
    IF day > end_day THEN dates
    ELSE LET event_date == Strptime(month_name, IntToStr(day), year)
         IN  IF event_date.ok
             THEN ShortLoopAbort(month_name, year, day + 1, end_day,
                                 Append(dates, event_date.date))
             ELSE <<>>

RECURSIVE ShortLoop(_, _, _, _, _)
\* for day in range(start_day, end_day + 1): try strptime, append; except: warn
ShortLoop(month_name, year, day, end_day, dates) ==
    IF day > end_day THEN dates
    ELSE LET event_date == Strptime(month_name, IntToStr(day), year)
         IN  ShortLoop(month_name, year, day + 1, end_day,
                       IF event_date.ok THEN Append(dates, event_date.date) ELSE dates)

\* variant: range(start_day, end_day), the last day left out
ShortRangeExclusive(m) ==
    Returns(ShortLoop(m.month_name, m.year, m.start_day, m.end_day - 1, <<>>))

ShortRange(m) == Returns(ShortLoop(m.month_name, m.year, m.start_day, m.end_day, <<>>))

SingleDate(m) ==
    LET event_date == Strptime(m.month_name, m.day, m.year)
    IN  Returns(IF event_date.ok THEN << event_date.date >> ELSE <<>>)

parse_dates(text) ==
    LET range_match       == RangeMatch(text)
        short_range_match == ShortRangeMatch(text)
        single_match      == SingleMatch(text)
    IN  IF range_match.ok THEN FullRange(range_match)
        ELSE IF short_range_match.ok THEN ShortRange(short_range_match)
        ELSE IF single_match.ok THEN SingleDate(single_match)
        ELSE Returns(<<>>)

-----------------------------------------------------------------------------
(* The BeautifulSoup tree.  A node is [name, parent, text]; a string node  *)
(* has the name "#text".  Index 0 is the BeautifulSoup object, the root:   *)
(* it is a Tag, has no siblings, and its .parent is None.                  *)

Node(name, parent, text) == [name |-> name, parent |-> parent, text |-> text]

None == -1

Lighting_schedule == <<"L","i","g","h","t","i","n","g"," ","s","c","h","e","d","u","l","e">>
City_Hall == <<"C","i","t","y"," ","H","a","l","l">>
Request == <<"R","e","q","u","e","s","t">>
in_recognition_of == <<"i","n"," ","r","e","c","o","g","n","i","t","i","o","n"," ","o","f">>

\* element.parent
Parent(doc, n) == IF n = 0 THEN None ELSE doc[n].parent

RECURSIVE IsInside(_, _, _)
\* whether node n is a descendant of node a
IsInside(doc, n, a) ==
    IF n = 0 THEN FALSE
    ELSE doc[n].parent = a \/ IsInside(doc, doc[n].parent, a)

\* soup.find(string=re.compile(r'Lighting schedule', re.IGNORECASE)):
\* the first string of the document that contains the phrase
FindHeadingText(doc) ==
    LET hits == { i \in 1..Len(doc) :
                    doc[i].name = "#text" /\ ContainsCI(doc[i].text, Lighting_schedule) }
    IN  IF hits = {} THEN None ELSE CHOOSE i \in hits : \A j \in hits : i <= j

RECURSIVE FindParent(_, _, _)
\* element.find_parent(name): the nearest enclosing tag of that name
FindParent(doc, n, name) ==
    IF n = 0 THEN None
    ELSE IF doc[n].parent # 0 /\ doc[doc[n].parent].name = name THEN doc[n].parent
    ELSE FindParent(doc, doc[n].parent, name)

\* element.find_parent(): the enclosing tag, which is the BeautifulSoup
\* object for a top-level node
FindAnyParent(doc, n) == Parent(doc, n)

\* tag.find_next_sibling(): the next sibling that is a tag (strings are
\* passed over); the BeautifulSoup object has no siblings
FindNextSibling(doc, n) ==
    LET sibs == { j \in 1..Len(doc) :
                    n # 0 /\ j > n /\ doc[j].parent = doc[n].parent /\ doc[j].name # "#text" }
    IN  IF sibs = {} THEN None ELSE CHOOSE j \in sibs : \A k \in sibs : j <= k

RECURSIVE SelectInside(_, _, _, _)
\* the nodes of the given name inside node a, from index i on, in document order
SelectInside(doc, a, name, i) ==
    IF i > Len(doc) THEN <<>>
    ELSE (IF doc[i].name = name /\ IsInside(doc, i, a) THEN <<i>> ELSE <<>>)
         \o SelectInside(doc, a, name, i + 1)

\* tag.find_all('b')
FindAllB(doc, a) == SelectInside(doc, a, "b", 1)

\* tag.get_text(): the strings inside the tag, joined
GetText(doc, a) ==
    LET strings == SelectInside(doc, a, "#text", 1)
    IN  Flatten([k \in 1..Len(strings) |-> doc[strings[k]].text])

\* Lines 59-93 of parse_lighting_schedule: where the schedule block is.
\* exc is the exception that leaves the function; found = FALSE is one of
\* the early "return []"; tags holds the text of the block's <b> tags.
LocateBlock(doc) ==
    LET schedule_text_element == FindHeadingText(doc)
        summary_element  == FindParent(doc, schedule_text_element, "summary")
        schedule_heading == FindAnyParent(doc, schedule_text_element)
        first_try        == FindNextSibling(doc, schedule_heading)
        NotFound         == [exc |-> "none", found |-> FALSE, tags |-> <<>>]
        Found(c)         ==
            LET event_tags_ == FindAllB(doc, c)
            IN  [exc |-> "none", found |-> TRUE,
                 tags |-> [k \in 1..Len(event_tags_) |-> GetText(doc, event_tags_[k])]]
    IN  IF schedule_text_element = None THEN NotFound
        ELSE IF summary_element # None
        THEN (IF FindNextSibling(doc, summary_element) = None THEN NotFound
              ELSE Found(FindNextSibling(doc, summary_element)))
        ELSE IF first_try # None THEN Found(first_try)
        \* schedule_heading.parent.find_next_sibling(): .parent of the
        \* BeautifulSoup object is None
        ELSE IF Parent(doc, schedule_heading) = None
        THEN [exc |-> "AttributeError", found |-> FALSE, tags |-> <<>>]
        ELSE IF FindNextSibling(doc, Parent(doc, schedule_heading)) = None THEN NotFound
        ELSE Found(FindNextSibling(doc, Parent(doc, schedule_heading)))

-----------------------------------------------------------------------------
(* Splitting one event text: lines 99-124                                  *)

RECURSIVE CutAtDashes(_, _)
\* the pieces of s between its dash characters; acc is the piece being read
CutAtDashes(s, acc) ==
    IF s = <<>> THEN << acc >>
    ELSE IF Head(s) \in Dash THEN << acc >> \o CutAtDashes(Tail(s), <<>>)
    ELSE CutAtDashes(Tail(s), Append(acc, Head(s)))

\* re.split(r'\s*[EN EM]\s*', s): a delimiter takes the whitespace on both
\* of its sides with it
SplitParts(s) ==
    LET raw == CutAtDashes(s, <<>>)
    IN  [k \in 1..Len(raw) |->
            LET left == IF k > 1 THEN LStrip(raw[k]) ELSE raw[k]
            IN  IF k < Len(raw) THEN RStrip(left) ELSE left]

RECURSIVE JoinParts(_, _)
\* sep.join(parts)
JoinParts(parts, sep) ==
    IF parts = <<>> THEN <<>>
    ELSE IF Len(parts) = 1 THEN parts[1]
    ELSE parts[1] \o sep \o JoinParts(Tail(parts), sep)

\* re.sub(r'^in recognition of\s+', '', details, flags=re.IGNORECASE)
StripRecognition(details) ==
    LET n == Len(in_recognition_of)
        j == SpanEnd(details, n + 1, Space)
    IN  IF LitAtCI(details, 1, in_recognition_of) /\ j >= n + 1
        THEN SubSeq(details, j + 1, Len(details))
        ELSE details

\* ' EN '.join(parts[2:]).strip(), then the prefix removed
DetailsOf(parts) ==
    IF Len(parts) > 2
    THEN StripRecognition(Strip(JoinParts(SubSeq(parts, 3, Len(parts)), <<" ", "EN", " ">>)))
    ELSE <<>>

\* the test of line 102
IsSkipped(event_text) ==
    event_text = <<>> \/ Contains(event_text, City_Hall) \/ Contains(event_text, Request)

\* the events one date list gives: lines 134-139
EventsFor(parsed_dates, colors, details) ==
    [k \in 1..Len(parsed_dates) |->
        [date |-> parsed_dates[k], colors |-> colors, details |-> details]]

\* One pass of the loop body, lines 99-140, on the text of one <b> tag:
\* the exception that leaves it and the events it appends.  split is
\* whether the tag got past the test of line 109.
ParseFragment(tag_text) ==
    LET event_text   == Strip(tag_text)
        parts        == SplitParts(event_text)
        date_part    == Strip(parts[1])
        colors       == Strip(parts[2])
        details      == DetailsOf(parts)
        parsed_dates == parse_dates(date_part)
        Nothing(sp)  == [exc |-> "none", split |-> sp, date_part |-> <<>>,
                         colors |-> <<>>, new |-> <<>>]
    IN  IF IsSkipped(event_text) THEN Nothing(FALSE)
        ELSE IF Len(parts) < 2 THEN Nothing(FALSE)
        ELSE IF parsed_dates.exc # "none"
        THEN [exc |-> parsed_dates.exc, split |-> TRUE, date_part |-> date_part,
              colors |-> colors, new |-> <<>>]
        ELSE [exc |-> "none", split |-> TRUE, date_part |-> date_part, colors |-> colors,
              new |-> EventsFor(parsed_dates.dates, colors, details)]

\* variant: events.insert(0, ...), new events put in front
PrependEvents(evs, new) == new \o evs

\* events.append, once per date of the fragment
AppendEvents(evs, new) == evs \o new

-----------------------------------------------------------------------------
(* Date expressions and their text, in the three formats the docstring of  *)
(* parse_dates lists.  A month of 13 is written as a capitalised word that *)
(* is no month name.                                                       *)

Sunday == <<"S","u","n","d","a","y">>
Monday == <<"M","o","n","d","a","y">>
Friday == <<"F","r","i","d","a","y">>
Smarch == <<"S","m","a","r","c","h">>
sometime_in_spring == <<"s","o","m","e","t","i","m","e"," ","i","n"," ","s","p","r","i","n","g">>

MonthWord(m) == IF m \in 1..12 THEN MonthNames[m] ELSE Smarch

\* largest day number written in a date expression
MaxDay == 31
\* largest difference of the month numbers of a range's endpoints
MaxMonthSpan == 1

DayPool   == {0, 1, 2, 8} \cup (28..MaxDay)
MonthPool == {2, 3, 4, 12, 13}
YearPool  == {2024, 2026, MAXYEAR}

\* cross: "Sunday, February 1 - Sunday, February 8, 2026"
\* (a range runs over at most MaxMonthSpan + 1 months)
CrossExprs ==
    { e \in [form : {"cross"}, m1 : MonthPool \ {4}, d1 : DayPool, m2 : MonthPool \ {4},
              d2 : DayPool, year : YearPool, tight : {FALSE}] :
        e.m2 = 13 \/ e.m2 - e.m1 <= MaxMonthSpan }

\* short: "Monday, March 15-17, 2026" (tight) or "Monday, March 15 - 17, 2026"
ShortExprs ==
    [form : {"short"}, m1 : MonthPool, d1 : DayPool, m2 : {0},
     d2 : DayPool, year : YearPool, tight : BOOLEAN]

\* single: "Friday, January 2, 2026"; tight writes the day with two digits
SingleExprs ==
    [form : {"single"}, m1 : MonthPool, d1 : DayPool, m2 : {0},
     d2 : {0}, year : YearPool, tight : BOOLEAN]

\* text that is no date: "sometime in spring"
JunkExprs ==
    [form : {"junk"}, m1 : {0}, d1 : {0}, m2 : {0}, d2 : {0}, year : {0}, tight : {FALSE}]

NoExpr == [form |-> "none", m1 |-> 0, d1 |-> 0, m2 |-> 0, d2 |-> 0, year |-> 0, tight |-> FALSE]

DateExprs == CrossExprs \cup ShortExprs \cup SingleExprs \cup JunkExprs

Pad2(n) == << DigitChar((n \div 10) % 10), DigitChar(n % 10) >>

Render(e) ==
    CASE e.form = "cross" ->
           Flatten(<< Sunday, <<",", " ">>, MonthWord(e.m1), <<" ">>, IntToStr(e.d1),
                      <<" ", "-", " ">>,
                      Sunday, <<",", " ">>, MonthWord(e.m2), <<" ">>, IntToStr(e.d2),
                      <<",", " ">>, IntToStr(e.year) >>)
      [] e.form = "short" ->
           Flatten(<< Monday, <<",", " ">>, MonthWord(e.m1), <<" ">>, IntToStr(e.d1),
                      IF e.tight THEN <<"-">> ELSE <<" ", "-", " ">>,
                      IntToStr(e.d2), <<",", " ">>, IntToStr(e.year) >>)
      [] e.form = "single" ->
           Flatten(<< Friday, <<",", " ">>, MonthWord(e.m1), <<" ">>,
                      IF e.tight THEN Pad2(e.d1) ELSE IntToStr(e.d1),
                      <<",", " ">>, IntToStr(e.year) >>)
      [] e.form = "junk" -> sometime_in_spring
      [] OTHER -> <<>>

Pending == [exc |-> "pending", dates |-> <<>>]

-----------------------------------------------------------------------------
(* save_to_csv and generate_calendar                                       *)

CHC_prefix == <<"C","H","C",":"," ">>
No_details_provided == <<"N","o"," ","d","e","t","a","i","l","s"," ","p","r","o","v","i","d","e","d">>
uid_suffix == <<"-","c","i","t","y","h","a","l","l","@","s","f",".","g","o","v">>
CITY_HALL_URL == "https://www.sf.gov/location--san-francisco-city-hall"

\* event_tuple of save_to_csv, which is also the row it writes
EventTuple(event) == << IsoFormat(event.date), event.colors, event.details >>

\* load_existing_csv: the set of the rows of the file, empty when it is absent
LoadExistingCsv(exists, rows) ==
    IF exists THEN { rows[k] : k \in 1..Len(rows) } ELSE {}

RECURSIVE NewEvents(_, _)
\* the events whose tuple is not among the rows loaded before the run wrote
NewEvents(evs, existing_events) ==
    IF evs = <<>> THEN <<>>
    ELSE (IF EventTuple(Head(evs)) \notin existing_events THEN << Head(evs) >> ELSE <<>>)
         \o NewEvents(Tail(evs), existing_events)

\* the rows appended to the file: one per new event, in order
RowsWritten(new_events) == [k \in 1..Len(new_events) |-> EventTuple(new_events[k])]

\* variant: a uid that also carries the colors of the record
UidOfRecord(event_data) == IsoFormat(event_data.date) \o event_data.colors \o uid_suffix

\* uid = f"{event_data['date'].isoformat()}-cityhall@sf.gov"
Uid(event_data) == IsoFormat(event_data.date) \o uid_suffix

\* one Event of generate_calendar; now stands for datetime.now(PACIFIC_TZ)
CalendarEvent(event_data, now) ==
    [summary     |-> CHC_prefix \o event_data.colors,
     dtstart     |-> event_data.date,
     description |-> IF event_data.details # <<>> THEN event_data.details
                     ELSE No_details_provided,
     url         |-> CITY_HALL_URL,
     uid         |-> Uid(event_data),
     dtstamp     |-> now]

\* generate_calendar(events)
GenerateCalendar(evs, now) == [k \in 1..Len(evs) |-> CalendarEvent(evs[k], now)]

-----------------------------------------------------------------------------
(* The entries a page shows, and the markup of the page                    *)

green == <<"g","r","e","e","n">>
gold  == <<"g","o","l","d">>
Pride == <<"P","r","i","d","e">>
Visit_City_Hall == <<"V","i","s","i","t"," ","C","i","t","y"," ","H","a","l","l">>

Single(m, d, y)   == [form |-> "single", m1 |-> m, d1 |-> d, m2 |-> 0, d2 |-> 0,
                      year |-> y, tight |-> FALSE]
Cross(m, d, n, e, y) == [form |-> "cross", m1 |-> m, d1 |-> d, m2 |-> n, d2 |-> e,
                         year |-> y, tight |-> FALSE]
Junk == [form |-> "junk", m1 |-> 0, d1 |-> 0, m2 |-> 0, d2 |-> 0, year |-> 0, tight |-> FALSE]

Entry(kind, expr, colors, details) ==
    [kind |-> kind, expr |-> expr, colors |-> colors, details |-> details]

\* "Friday, February 3, 2026 EN green EN in recognition of Pride"
FullEntry      == Entry("full", Single(2, 3, 2026), green, Pride)
\* "Sunday, February 1 - Sunday, February 3, 2026 EN green EN in recognition of Pride"
RangeEntry     == Entry("full", Cross(2, 1, 2, 3, 2026), green, Pride)
\* "Friday, March 1, 2026 EN gold"
PlainEntry     == Entry("plain", Single(3, 1, 2026), gold, <<>>)
\* "Friday, February 3, 2026 EN gold"
RecolourEntry  == Entry("plain", Single(2, 3, 2026), gold, <<>>)
\* "sometime in spring EN gold"
UndatedEntry   == Entry("plain", Junk, gold, <<>>)
\* "Friday, February 3, 2026 EN"
DanglingEntry  == Entry("dangling", Single(2, 3, 2026), <<>>, <<>>)
\* "Friday, March 1, 2026 EM EM in recognition of Pride"
HollowEntry    == Entry("hollow", Single(3, 1, 2026), <<>>, Pride)
\* "Sunday, December 30 - Sunday, December 31, 9999 EN gold"
LastDaysEntry  == Entry("plain", Cross(12, 30, 12, 31, MAXYEAR), gold, <<>>)
\* "Visit City Hall": a notice among the entries
NoticeEntry    == Entry("notice", Junk, <<>>, <<>>)

EntryPool == { FullEntry, RangeEntry, PlainEntry, RecolourEntry, UndatedEntry,
               DanglingEntry, HollowEntry, LastDaysEntry, NoticeEntry }

\* the text of an entry as the page writes it
EntryText(e) ==
    CASE e.kind = "full" ->
           Flatten(<< Render(e.expr), <<" ", "EN", " ">>, e.colors, <<" ", "EN", " ">>,
                      in_recognition_of, <<" ">>, e.details >>)
      [] e.kind = "plain"    -> Flatten(<< Render(e.expr), <<" ", "EN", " ">>, e.colors >>)
      [] e.kind = "dangling" -> Render(e.expr) \o <<" ", "EN">>
      [] e.kind = "hollow"   ->
           Flatten(<< Render(e.expr), <<" ", "EM", " ", "EM", " ">>,
                      in_recognition_of, <<" ">>, e.details >>)
      [] OTHER -> Visit_City_Hall

\* most entries on one page
MaxFrags == 2
\* most runs of main()
MaxRuns == 3

Schedules == UNION { [1..n -> EntryPool] : n \in 0..MaxFrags }

\* Shapes of the page.  details: the structure the comment of line 58
\* describes.  heading, wrapped: no <summary>; the block follows the
\* heading or the element around it.  plain_lines: the block holds the
\* entries as lines of text, none in a <b> tag.  root_text: the heading
\* phrase is text at the top level of the document.  The rest have no
\* heading phrase or no block after it.
FoundShapes   == { "details", "heading", "wrapped" }
NoBlockShapes == { "no_heading", "summary_alone", "lone_heading" }
OtherShapes   == { "plain_lines", "root_text" }

Sources ==
    [shape : {"details"}, entries : Schedules]
    \cup [shape : (FoundShapes \ {"details"}) \cup NoBlockShapes \cup OtherShapes,
          entries : { << FullEntry, PlainEntry >> }]

\* the pages successive runs of main() find
RunSources ==
    [shape : {"details"},
     entries : { <<>>, << FullEntry >>, << RangeEntry >>, << PlainEntry >>,
                 << FullEntry, RecolourEntry >>, << RangeEntry, FullEntry >>,
                 << PlainEntry, LastDaysEntry >> }]
    \cup [shape : {"root_text", "no_heading"}, entries : { << FullEntry, PlainEntry >> }]

NoSource == [shape |-> "none", entries |-> <<>>]

\* <b>text</b> for every entry, inside node `block`, which has index `block`
BoldEntries(entries, block) ==
    Flatten([k \in 1..Len(entries) |->
                << Node("b", block, <<>>),
                   Node("#text", block + 2 * k - 1, EntryText(entries[k])) >>])

\* the entries as lines of one paragraph
LinesOf(entries) ==
    Flatten([k \in 1..Len(entries) |-> EntryText(entries[k]) \o <<"\n">>])

LIGHTING_SCHEDULE == <<"L","I","G","H","T","I","N","G"," ","S","C","H","E","D","U","L","E">>

Markup(src) ==
    CASE src.shape = "details" ->
           << Node("details", 0, <<>>), Node("summary", 1, <<>>), Node("h3", 2, <<>>),
              Node("#text", 3, Lighting_schedule), Node("div", 1, <<>>) >>
           \o BoldEntries(src.entries, 5)
      [] src.shape = "heading" ->
           << Node("h3", 0, <<>>), Node("#text", 1, LIGHTING_SCHEDULE),
              Node("#text", 0, <<"\n">>), Node("div", 0, <<>>) >>
           \o BoldEntries(src.entries, 4)
      [] src.shape = "wrapped" ->
           << Node("div", 0, <<>>), Node("h3", 1, <<>>), Node("#text", 2, Lighting_schedule),
              Node("div", 0, <<>>) >>
           \o BoldEntries(src.entries, 4)
      [] src.shape = "plain_lines" ->
           << Node("details", 0, <<>>), Node("summary", 1, <<>>), Node("h3", 2, <<>>),
              Node("#text", 3, Lighting_schedule), Node("div", 1, <<>>),
              Node("p", 5, <<>>), Node("#text", 6, LinesOf(src.entries)) >>
      [] src.shape = "root_text" ->
           << Node("#text", 0, Lighting_schedule \o <<"\n">>), Node("div", 0, <<>>) >>
           \o BoldEntries(src.entries, 2)
      [] src.shape = "no_heading" ->
           << Node("div", 0, <<>>) >> \o BoldEntries(src.entries, 1)
      [] src.shape = "summary_alone" ->
           << Node("details", 0, <<>>), Node("summary", 1, <<>>), Node("h3", 2, <<>>),
              Node("#text", 3, Lighting_schedule) >>
      [] OTHER ->
           << Node("h3", 0, <<>>), Node("#text", 1, Lighting_schedule) >>

-----------------------------------------------------------------------------
(* main()                                                                  *)

MainIdle ==
    /\ pc = "idle" /\ runs = 0 /\ source = NoSource
    /\ html_content = <<>> /\ event_tags = <<>> /\ tag_idx = 0 /\ events = <<>>
    /\ error = "none"
    /\ csv_exists = FALSE /\ csv_rows = <<>>
    /\ ics_exists = FALSE /\ ics = <<>>
    /\ uid_log = {}

DatesIdle == date_expr = NoExpr /\ date_text = <<>> /\ resolved = Pending

datesVars == << date_expr, date_text, resolved >>

Init == MainIdle /\ DatesIdle

\* html_content = fetch_page(): the page as it stands at the time of the run
FetchPage ==
    /\ pc = "idle" /\ runs < MaxRuns
    /\ \E src \in RunSources : source' = src /\ html_content' = Markup(src)
    /\ runs' = runs + 1
    /\ pc' = "fetched"
    /\ event_tags' = <<>> /\ tag_idx' = 0 /\ events' = <<>> /\ error' = "none"
    /\ UNCHANGED << csv_exists, csv_rows, ics_exists, ics, uid_log, datesVars >>

\* parse_lighting_schedule up to the loop: lines 55-96
LocateSchedule ==
    /\ pc = "fetched"
    /\ LET loc == LocateBlock(html_content)
       IN  /\ pc' = IF loc.exc # "none" THEN "raised"
                    ELSE IF loc.found THEN "loop" ELSE "parsed"
           /\ error' = loc.exc
           /\ event_tags' = loc.tags
    /\ UNCHANGED << runs, source, html_content, tag_idx, events,
                    csv_exists, csv_rows, ics_exists, ics, uid_log, datesVars >>

\* one pass of the loop over event_tags: lines 98-140
ParseEventTag ==
    /\ pc = "loop" /\ tag_idx < Len(event_tags)
    /\ LET r == ParseFragment(event_tags[tag_idx + 1])
       IN  /\ pc' = IF r.exc # "none" THEN "raised" ELSE "loop"
           /\ error' = r.exc
           /\ events' = AppendEvents(events, r.new)
    /\ tag_idx' = tag_idx + 1
    /\ UNCHANGED << runs, source, html_content, event_tags,
                    csv_exists, csv_rows, ics_exists, ics, uid_log, datesVars >>

\* return events: line 147
ReturnEvents ==
    /\ pc = "loop" /\ tag_idx = Len(event_tags)
    /\ pc' = "parsed"
    /\ UNCHANGED << runs, source, html_content, event_tags, tag_idx, events, error,
                    csv_exists, csv_rows, ics_exists, ics, uid_log, datesVars >>

\* save_to_csv(events, CSV_FILE): rows are appended only, and the file is
\* left as it is when there is no new event
SaveToCsv ==
    /\ pc = "parsed"
    /\ LET new_events == NewEvents(events, LoadExistingCsv(csv_exists, csv_rows))
       IN  /\ csv_rows' = csv_rows \o RowsWritten(new_events)
           /\ csv_exists' = (csv_exists \/ new_events # <<>>)
    /\ pc' = "saved"
    /\ UNCHANGED << runs, source, html_content, event_tags, tag_idx, events, error,
                    ics_exists, ics, uid_log, datesVars >>

\* cal = generate_calendar(events); save_calendar(cal, OUTPUT_FILE)
WriteCalendar ==
    /\ pc = "saved"
    /\ ics' = GenerateCalendar(events, runs)
    /\ ics_exists' = TRUE
    /\ uid_log' = uid_log \cup { [date |-> ics'[k].dtstart, uid |-> ics'[k].uid] :
                                   k \in 1..Len(ics') }
    /\ pc' = "idle"
    /\ UNCHANGED << runs, source, html_content, event_tags, tag_idx, events, error,
                    csv_exists, csv_rows, datesVars >>

\* except Exception: print, raise: the run ends with nothing written
Exit ==
    /\ pc = "raised"
    /\ pc' = "idle"
    /\ UNCHANGED << runs, source, html_content, event_tags, tag_idx, events, error,
                    csv_exists, csv_rows, ics_exists, ics, uid_log, datesVars >>

Next ==
    \/ FetchPage
    \/ LocateSchedule
    \/ ParseEventTag
    \/ ReturnEvents
    \/ SaveToCsv
    \/ WriteCalendar
    \/ Exit

\* runs of main(), one after the other, on the same two files
Spec == Init /\ [][Next]_vars

-----------------------------------------------------------------------------
(* One call of parse_lighting_schedule on any page                         *)

InitParse ==
    /\ pc = "fetched" /\ runs = 1
    /\ source \in Sources
    /\ html_content = Markup(source)
    /\ event_tags = <<>> /\ tag_idx = 0 /\ events = <<>>
    /\ error = "none"
    /\ csv_exists = FALSE /\ csv_rows = <<>>
    /\ ics_exists = FALSE /\ ics = <<>>
    /\ uid_log = {}
    /\ DatesIdle

NextParse ==
    \/ LocateSchedule
    \/ ParseEventTag
    \/ ReturnEvents

SpecParse == InitParse /\ [][NextParse]_vars

-----------------------------------------------------------------------------
(* One call of parse_dates on the text of a date expression                *)

InitDates ==
    /\ MainIdle
    /\ date_expr \in DateExprs
    /\ date_text = Render(date_expr)
    /\ resolved = Pending

CallParseDates ==
    /\ resolved = Pending
    /\ resolved' = parse_dates(date_text)
    /\ UNCHANGED << mainVars, date_expr, date_text >>

NextDates == CallParseDates

SpecDates == InitDates /\ [][NextDates]_vars

-----------------------------------------------------------------------------
(* What the date expressions and entries stand for, stated without the     *)
(* parser: by the day of the year                                          *)

RECURSIVE DaysBefore(_, _)
\* days of year y before month m
DaysBefore(y, m) == IF m <= 1 THEN 0 ELSE DaysBefore(y, m - 1) + DaysInMonth(y, m - 1)

\* day of the year of a date
Ordinal(d) == DaysBefore(d.year, d.month) + d.day

StartOf(e) == MkDate(e.year, e.m1, e.d1)
EndOf(e)   == MkDate(e.year, e.m2, e.d2)
IsValid(d) == ValidDate(d.year, d.month, d.day)

Called == resolved # Pending

\* the valid days of the named month that a short range covers
ShortDays(e) == { d \in e.d1..e.d2 : ValidDate(e.year, e.m1, d) }

\* the set of the dates of a sequence
DateSet(ds) == { ds[i] : i \in 1..Len(ds) }

Ascending(ds) == \A i, j \in 1..Len(ds) : i < j => DateLT(ds[i], ds[j])

\* the valid calendar dates from the start to the end of a range expression
CoveredValid(e) ==
    IF e.form = "short" THEN { MkDate(e.year, e.m1, d) : d \in ShortDays(e) }
    ELSE { x \in { MkDate(e.year, m, d) : m \in 1..12, d \in 1..31 } :
             /\ IsValid(x)
             /\ (x.month > e.m1 \/ (x.month = e.m1 /\ x.day >= e.d1))
             /\ (x.month < e.m2 \/ (x.month = e.m2 /\ x.day <= e.d2)) }

\* C3: for a cross-boundary range whose two endpoints are valid dates of
\* the shared year, parse_dates returns every date from start to end
\* inclusive, consecutive and ascending (end - start + 1 dates), and the
\* empty sequence when start is after end.
C3_CrossRangeAllDates ==
    (Called /\ date_expr.form = "cross" /\ IsValid(StartOf(date_expr))
       /\ IsValid(EndOf(date_expr)))
    => LET a == StartOf(date_expr)
           b == EndOf(date_expr)
           n == Ordinal(b) - Ordinal(a) + 1
       IN  /\ resolved.exc = "none"
           /\ IF DateLT(b, a) THEN resolved.dates = <<>>
              ELSE /\ Len(resolved.dates) = n
                   /\ \A i \in 1..Len(resolved.dates) :
                        /\ IsValid(resolved.dates[i])
                        /\ resolved.dates[i].year = date_expr.year
                        /\ Ordinal(resolved.dates[i]) = Ordinal(a) + i - 1

\* C4: for a short same-month range, parse_dates returns one date per day
\* from StartDay to EndDay inclusive (those that are dates of the month),
\* all in the named month and year, ascending; nothing when StartDay >
\* EndDay, and never a date of another month.
C4_ShortRangeDays ==
    (Called /\ date_expr.form = "short")
    => /\ resolved.exc = "none"
       /\ Len(resolved.dates) = Cardinality(ShortDays(date_expr))
       /\ \A i \in 1..Len(resolved.dates) :
            /\ resolved.dates[i].year = date_expr.year
            /\ resolved.dates[i].month = date_expr.m1
            /\ resolved.dates[i].day \in ShortDays(date_expr)
       /\ Ascending(resolved.dates)
       /\ (date_expr.d1 > date_expr.d2 => resolved.dates = <<>>)
       /\ ((\A d \in date_expr.d1..date_expr.d2 : ValidDate(date_expr.year, date_expr.m1, d))
             => Len(resolved.dates) = IF date_expr.d1 > date_expr.d2 THEN 0
                                      ELSE date_expr.d2 - date_expr.d1 + 1)

\* a short range of four valid days, all returned
C4_Witness ==
    /\ Called /\ date_expr.form = "short" /\ date_expr.tight
    /\ date_expr.d2 - date_expr.d1 = 3
    /\ Len(resolved.dates) = 4

\* a range expression that covers a month/day/year combination that is no date
CoversInvalid(e) ==
    \/ e.form = "short" /\ e.m1 \in 1..12 /\ \E d \in e.d1..e.d2 : ~ ValidDate(e.year, e.m1, d)
    \/ e.form = "cross" /\ e.m1 \in 1..12 /\ e.m2 \in 1..12
         /\ (~ IsValid(StartOf(e)) \/ ~ IsValid(EndOf(e)))

\* C5 as stated: when a multi-day range, cross-boundary or short, covers
\* an invalid month/day/year combination, parse_dates still returns every
\* valid date of the range.
C5_KeepsValidDatesOfAnyRange ==
    (Called /\ CoversInvalid(date_expr))
    => CoveredValid(date_expr) \subseteq DateSet(resolved.dates)

\* C5 amended: a short same-month range that covers invalid days returns
\* exactly its valid days; a cross-boundary range with an endpoint that is
\* no valid date returns the empty sequence.
C5_InvalidDateHandling ==
    (Called /\ CoversInvalid(date_expr))
    => /\ resolved.exc = "none"
       /\ date_expr.form = "short" => DateSet(resolved.dates) = CoveredValid(date_expr)
       /\ date_expr.form = "cross" => resolved.dates = <<>>

\* a short range with an invalid day that still returns two dates
C5_Witness ==
    /\ Called /\ date_expr.form = "short" /\ CoversInvalid(date_expr)
    /\ Len(resolved.dates) = 2
    /\ date_expr.d2 - date_expr.d1 = 3

-----------------------------------------------------------------------------
(* Claims about parse_lighting_schedule                                    *)

\* the records an entry stands for: one per date, none for a notice or an
\* entry without a date
ExpectedRecords(e) ==
    IF e.kind \notin {"full", "plain"} \/ e.expr.form = "junk" THEN <<>>
    ELSE IF e.expr.form = "single"
    THEN << [date |-> StartOf(e.expr), colors |-> e.colors, details |-> e.details] >>
    ELSE [i \in 1..(e.expr.d2 - e.expr.d1 + 1) |->
            [date |-> MkDate(e.expr.year, e.expr.m1, e.expr.d1 + i - 1),
             colors |-> e.colors, details |-> e.details]]

\* entries ExpectedRecords speaks for: a notice, an undated entry, or a
\* date, colors and optional reason with a valid single date or a valid
\* range inside one month
Regular(e) ==
    \/ e.kind = "notice"
    \/ e.kind \in {"full", "plain"} /\ e.expr.form = "junk"
    \/ e.kind \in {"full", "plain"} /\ e.expr.form = "single" /\ IsValid(StartOf(e.expr))
    \/ e.kind \in {"full", "plain"} /\ e.expr.form = "cross"
         /\ e.expr.m1 = e.expr.m2 /\ e.expr.d1 <= e.expr.d2
         /\ IsValid(StartOf(e.expr)) /\ IsValid(EndOf(e.expr))
         /\ ~ NextDayOverflows(EndOf(e.expr))

AllRegular(entries) == \A k \in 1..Len(entries) : Regular(entries[k])

ExpectedEvents(entries) == Flatten([k \in 1..Len(entries) |-> ExpectedRecords(entries[k])])

\* what the k-th event tag yields on its own
OnItsOwn(k) == ParseFragment(event_tags[k]).new

\* C1: parse_lighting_schedule never raises, and returns the empty list
\* when the heading phrase is absent or no block follows it, also when the
\* heading text is at the top level of the document.
C1_NeverRaises ==
    /\ pc # "raised"
    /\ error = "none"
    /\ (pc # "fetched" /\ source.shape \in NoBlockShapes \cup {"root_text"})
         => (pc = "parsed" /\ events = <<>>)

\* C2: the output is the concatenation, in fragment order, of what each
\* fragment yields on its own; a skipped fragment adds nothing and changes
\* no other fragment's records; one fragment's records ascend by date; N
\* well-formed single-date fragments give N records in the same order.
C2_ConcatenationInOrder ==
    /\ pc \in {"loop", "parsed"}
         => events = Flatten([k \in 1..tag_idx |-> OnItsOwn(k)])
    /\ \A k \in 1..tag_idx :
         LET new == OnItsOwn(k)
         IN  \A i, j \in 1..Len(new) : i < j => DateLT(new[i].date, new[j].date)
    /\ (pc = "parsed" /\ source.shape \in FoundShapes /\ AllRegular(source.entries))
         => events = ExpectedEvents(source.entries)
    /\ (pc = "parsed" /\ source.shape \in FoundShapes
          /\ \A k \in 1..Len(source.entries) :
               Regular(source.entries[k]) /\ source.entries[k].expr.form = "single")
         => /\ Len(events) = Len(source.entries)
            /\ \A k \in 1..Len(events) : events[k].date = StartOf(source.entries[k].expr)

\* a page of two different well-formed single-date entries, parsed into
\* their two records in the order of the page
C2_Witness ==
    /\ pc = "parsed" /\ source.shape = "details"
    /\ source.entries = << PlainEntry, FullEntry >>
    /\ Len(events) = 2
    /\ events[1].date = MkDate(2026, 3, 1) /\ events[2].date = MkDate(2026, 2, 3)

\* C6: whenever a fragment's split succeeds, its date text and its colors
\* text are non-empty after trimming, so every record has non-empty colors.
C6_SplitPartsNonEmpty ==
    /\ \A k \in 1..tag_idx :
         LET r == ParseFragment(event_tags[k])
         IN  r.split => (r.date_part # <<>> /\ r.colors # <<>>)
    /\ \A i \in 1..Len(events) : events[i].colors # <<>>

\* C9: a block without <b> tags is segmented by lines, so well-formed
\* entries written as plain lines still yield their records.
C9_PlainLinesYieldRecords ==
    (pc = "parsed" /\ source.shape = "plain_lines" /\ AllRegular(source.entries))
    => events = ExpectedEvents(source.entries)

-----------------------------------------------------------------------------
(* Claims about the log and the feed                                       *)

\* C7: the log never holds two rows with the same (date, colors, details).
C7_NoDuplicateRows ==
    \A i, j \in 1..Len(csv_rows) : i # j => csv_rows[i] # csv_rows[j]

\* the feed has an entry for the record of a row of the log
InFeed(row) ==
    \E i \in 1..Len(ics) :
        /\ IsoFormat(ics[i].dtstart) = row[1]
        /\ ics[i].summary = CHC_prefix \o row[2]
        /\ ics[i].description = IF row[3] # <<>> THEN row[3] ELSE No_details_provided

\* C8: the feed a run writes has an entry for every record of the
\* accumulated log.
C8_FeedCoversLog ==
    (pc = "idle" /\ runs > 0 /\ error = "none")
    => \A k \in 1..Len(csv_rows) : InFeed(csv_rows[k])

=============================================================================
